---- MODULE Spec2Model ----
(***************************************************************************)
(* Webhook ingestion of the Solana transfer monitor: the controller         *)
(* (signature check, outcome mapping), the two TokenService payload shapes  *)
(* (legacy token event, raw address activity) and the hash-keyed transfer   *)
(* store.                                                                   *)
(*                                                                          *)
(* JavaScript values are TLA+ records so that values of different types can *)
(* be compared: a string is [text, pad], a number is a fraction [num, den], *)
(* undefined, null and NaN are one-field records, an object is a record of  *)
(* its own fields, an array is a sequence (0-based indices are translated   *)
(* by At).                                                                  *)
(***************************************************************************)
EXTENDS Integers, Sequences, FiniteSets, TLC

VARIABLES
    transfers,   \* TokenService.transfers: Map<string, TokenTransfer>
    signingKey,  \* config.alchemyWebhookSigningKey (process.env, may be unset)
    service,     \* which TokenService the process runs: "legacy" or "activity"
    now,         \* the wall clock read by Date.now()
    handled,     \* number of requests handled so far
    last         \* the exchange (request, response, effect) that just took place

vars == <<transfers, signingKey, service, now, handled, last>>

---------------------------------------------------------------------------
(* Bounds of the model *)

MaxRequests == 2
MaxClock == 1
MaxItems == 2

---------------------------------------------------------------------------
(* JavaScript values *)

Undefined == [undefined |-> TRUE]
Null == [null |-> TRUE]
NaN == [nan |-> TRUE]

\* A string: the characters of `text` followed by `pad` characters "1".
Str(text) == [text |-> text, pad |-> 0]
Padded(text, n) == [text |-> text, pad |-> n]
IsString(v) == DOMAIN v = {"text", "pad"}
Chars(s) == s.text \o [i \in 1..s.pad |-> "1"]
StrLen(s) == Len(s.text) + s.pad
EmptyString == Str(<<>>)

\* A number: the fraction num/den in lowest terms, den > 0.
RECURSIVE Gcd(_, _)
Gcd(a, b) == IF b = 0 THEN a ELSE Gcd(b, a % b)
Abs(n) == IF n < 0 THEN -n ELSE n
Frac(n, d) ==
    LET g == Gcd(Abs(n), d)
    IN  IF g = 0 THEN [num |-> 0, den |-> 1] ELSE [num |-> n \div g, den |-> d \div g]
Num(n) == [num |-> n, den |-> 1]
IsNumber(v) == DOMAIN v = {"num", "den"}
isNaN(v) == v = NaN

\* The element of a one-element set (used to name a value that is computed once)
Only(S) == CHOOSE x \in S : TRUE

\* obj.field of an object that may lack the field
Get(obj, f) == IF f \in DOMAIN obj THEN obj[f] ELSE Undefined
\* arr[i] with a 0-based index, undefined when out of range or not an index
At(arr, i) ==
    IF IsNumber(i) /\ i.den = 1 /\ i.num + 1 \in DOMAIN arr THEN arr[i.num + 1] ELSE Undefined

UpperLetters == <<"A", "B", "C", "D", "E", "F", "G", "H", "I", "J", "K", "L", "M",
                  "N", "O", "P", "Q", "R", "S", "T", "U", "V", "W", "X", "Y", "Z">>
LowerLetters == <<"a", "b", "c", "d", "e", "f", "g", "h", "i", "j", "k", "l", "m",
                  "n", "o", "p", "q", "r", "s", "t", "u", "v", "w", "x", "y", "z">>
Digits == <<"0", "1", "2", "3", "4", "5", "6", "7", "8", "9">>
Range(seq) == {seq[i] : i \in DOMAIN seq}

LowerChar(c) ==
    IF c \in Range(UpperLetters)
    THEN LowerLetters[CHOOSE i \in DOMAIN UpperLetters : UpperLetters[i] = c]
    ELSE c

\* toLowerCase left out of the comparisons: the string as it is
ToLowerCase_identity(s) == s

\* String.prototype.toLowerCase
ToLowerCase(s) == [text |-> [i \in DOMAIN s.text |-> LowerChar(s.text[i])], pad |-> s.pad]

IsFalsy(v) == v \in {Undefined, Null, NaN, EmptyString, Num(0)}
\* typeof v === 'object' && v !== null, for the values of this model
IsObject(v) == ~IsFalsy(v) /\ ~IsString(v) /\ ~IsNumber(v)

---------------------------------------------------------------------------
(* Signature verification: src/unnamed/part_005, called from the controller *)

\* Characters of the request bodies and keys, with their code points.
\* "U+FFFD" is the one replacement character.
CodedChars == <<"{", "}", "A", "k", "w", "U+FFFD">>
CodePoints == <<123, 125, 65, 107, 119, 65533>>
CharOf(cp) == CodedChars[CHOOSE i \in DOMAIN CodePoints : CodePoints[i] = cp]
CodeOf(c) == CodePoints[CHOOSE i \in DOMAIN CodedChars : CodedChars[i] = c]

\* Buffer.prototype.toString('utf8'): a well-formed sequence decodes to its
\* character, every byte that starts no well-formed sequence decodes to U+FFFD.
RECURSIVE Utf8Decode(_)
Utf8Decode(bytes) ==
    IF bytes = <<>> THEN <<>>
    ELSE IF bytes[1] < 128
         THEN <<CharOf(bytes[1])>> \o Utf8Decode(Tail(bytes))
    ELSE IF Len(bytes) >= 3 /\ SubSeq(bytes, 1, 3) = <<239, 191, 189>>
         THEN <<"U+FFFD">> \o Utf8Decode(SubSeq(bytes, 4, Len(bytes)))
    ELSE <<"U+FFFD">> \o Utf8Decode(Tail(bytes))

BufferToString(buf) == Str(Utf8Decode(buf))

\* The bytes hmac.update(str, 'utf8') feeds to the hash.
RECURSIVE Utf8Encode(_)
Utf8Encode(chars) ==
    IF chars = <<>> THEN <<>>
    ELSE (IF chars[1] = "U+FFFD" THEN <<239, 191, 189>> ELSE <<CodeOf(chars[1])>>)
         \o Utf8Encode(Tail(chars))

HexDigits == <<"0", "1", "2", "3", "4", "5", "6", "7", "8", "9", "a", "b", "c", "d", "e", "f">>
HexByte(b) == <<HexDigits[(b \div 16) + 1], HexDigits[(b % 16) + 1]>>
RECURSIVE HexOf(_)
HexOf(bytes) == IF bytes = <<>> THEN <<>> ELSE HexByte(bytes[1]) \o HexOf(Tail(bytes))

\* crypto.createHmac('sha256', key).update(bytes).digest('hex').  HMAC-SHA256 is
\* taken to be collision free: the stand-in is an injective keyed encoding of
\* the bytes (keys are one character long), written in lowercase hex.
HmacSha256Hex(key, bytes) == Str(HexOf(Utf8Encode(Chars(key)) \o bytes))

\* createHmac throws on a key that is no string (undefined); the catch block
\* returns false.
verifyAlchemySignature(rawBody, signature, key) ==
    IF ~IsString(key) THEN FALSE
    ELSE LET digest == HmacSha256Hex(key, Utf8Encode(Chars(rawBody)))
         IN  signature = digest

---------------------------------------------------------------------------
(* Configuration: src/unnamed/part_001 lines 4-10 *)

\* An address literal: the given leading characters padded with "1" to 32.
Addr(text) == Padded(text, 32 - Len(text))

config_solanaAddress == Addr(<<"M", "o", "n">>)
config_usdcTokenAddress_toBase58 == Addr(<<"U", "s", "d", "c">>)

\* The Map operations of the store
\* set that keeps the record a key already has (insert only)
MapSet_keepExisting(m, k, v) ==
    [x \in DOMAIN m \cup {k} |-> IF x \in DOMAIN m THEN m[x] ELSE v]
\* a store that keeps a second record for a key it already has
MapSet_keepDuplicates(m, k, v) ==
    LET slot == IF k \in DOMAIN m THEN [duplicate |-> k] ELSE k
    IN  [x \in DOMAIN m \cup {slot} |-> IF x = slot THEN v ELSE m[x]]
\* a set that merges into the record a key already has: the first timestamp
\* is kept
MapSet_keepTimestamp(m, k, v) ==
    [x \in DOMAIN m \cup {k} |->
        IF x # k THEN m[x]
        ELSE IF k \in DOMAIN m THEN [v EXCEPT !.timestamp = m[k].timestamp]
        ELSE v]
MapSet(m, k, v) == [x \in DOMAIN m \cup {k} |-> IF x = k THEN v ELSE m[x]]
MapHas(m, k) == k \in DOMAIN m
EmptyMap == [x \in {} |-> Undefined]

---------------------------------------------------------------------------
(* TokenService, legacy token-event shape: src/src/services/tokenService.ts *)

MinAddrLen == 32
MaxAddrLen == 44

Base58Alphabet ==
    (Range(Digits) \ {"0"}) \cup (Range(UpperLetters) \ {"I", "O"})
        \cup (Range(LowerLetters) \ {"l"})

\* /^[1-9A-HJ-NP-Za-km-z]{32,44}$/.test(s)
IsBase58Address(s) ==
    /\ StrLen(s) >= MinAddrLen
    /\ StrLen(s) <= MaxAddrLen
    /\ \A c \in Range(Chars(s)) : c \in Base58Alphabet

\* /^\d*\.?\d*$/.test(s)
AmountFormatOk(s) ==
    LET cs == Chars(s)
    IN  /\ \A i \in DOMAIN cs : cs[i] \in Range(Digits) \cup {"."}
        /\ Cardinality({i \in DOMAIN cs : cs[i] = "."}) <= 1

DigitValue(c) == (CHOOSE i \in DOMAIN Digits : Digits[i] = c) - 1
RECURSIVE DigitsValue(_)
DigitsValue(cs) ==
    IF cs = <<>> THEN 0
    ELSE 10 * DigitsValue(SubSeq(cs, 1, Len(cs) - 1)) + DigitValue(cs[Len(cs)])
RECURSIVE Pow10(_)
Pow10(n) == IF n = 0 THEN 1 ELSE 10 * Pow10(n - 1)
\* length of the run of digits of cs that starts at position i
RECURSIVE DigitRun(_, _)
DigitRun(cs, i) ==
    IF i \in DOMAIN cs /\ cs[i] \in Range(Digits) THEN 1 + DigitRun(cs, i + 1) ELSE 0

\* parseFloat(s) for strings without sign and exponent: the longest prefix of
\* the form digits [. digits] that holds a digit, NaN when there is none.
parseFloat(s) ==
    LET cs == Chars(s)
        intLen == DigitRun(cs, 1)
        hasPoint == intLen + 1 \in DOMAIN cs /\ cs[intLen + 1] = "."
        fracLen == IF hasPoint THEN DigitRun(cs, intLen + 2) ELSE 0
        digits == SubSeq(cs, 1, intLen) \o SubSeq(cs, intLen + 2, intLen + 1 + fracLen)
    IN  IF intLen + fracLen = 0 THEN NaN
        ELSE Frac(DigitsValue(digits), Pow10(fracLen))

\* new Date(s).getTime() on the timestamp strings of the model: milliseconds
\* since the epoch for the ISO forms, NaN for anything else.
Date_getTime(s) ==
    CASE s = Str(<<"1", "9", "7", "0">>) -> Num(0)
      [] s = Str(<<"1", "9", "7", "0", "-", "0", "1">>) -> Num(0)
      [] s = Str(<<"1", "9", "7", "0", "-", "0", "1", "-", "0", "2">>) -> Num(86400000)
      [] OTHER -> NaN

requiredFields == <<"tokenAddress", "to", "from", "amount", "hash", "timestamp">>

\* validatePayload with the amount format checked before the address formats
validatePayload_legacy_amountFirst(payload) ==
    IF ~IsObject(payload) THEN "Payload must be an object"
    ELSE LET event == Get(payload, "event")
         IN
         IF ~IsObject(event) THEN "Missing or invalid event object"
         ELSE IF \E i \in DOMAIN requiredFields : requiredFields[i] \notin DOMAIN event
              THEN "Missing required fields"
         ELSE IF ~IsString(event.tokenAddress) THEN "tokenAddress must be a string"
         ELSE IF ~IsString(event.to) THEN "to address must be a string"
         ELSE IF ~IsString(event.from) THEN "from address must be a string"
         ELSE IF ~IsString(event.amount) THEN "amount must be a string"
         ELSE IF ~IsString(event.hash) THEN "hash must be a string"
         ELSE IF ~IsString(event.timestamp) THEN "timestamp must be a string"
         ELSE IF ~AmountFormatOk(event.amount) THEN "Invalid amount format"
         ELSE IF ~IsBase58Address(event.tokenAddress) THEN "Invalid token address format"
         ELSE IF ~IsBase58Address(event.to) THEN "Invalid recipient address format"
         ELSE IF ~IsBase58Address(event.from) THEN "Invalid sender address format"
         ELSE IF isNaN(Date_getTime(event.timestamp)) THEN "Invalid timestamp format"
         ELSE "ok"

\* validatePayload: the message of the error it throws, "ok" when it returns.
validatePayload_legacy(payload) ==
    IF ~IsObject(payload) THEN "Payload must be an object"
    ELSE LET event == Get(payload, "event")
         IN
         IF ~IsObject(event) THEN "Missing or invalid event object"
         ELSE IF \E i \in DOMAIN requiredFields : requiredFields[i] \notin DOMAIN event
              THEN "Missing required fields"
         ELSE IF ~IsString(event.tokenAddress) THEN "tokenAddress must be a string"
         ELSE IF ~IsString(event.to) THEN "to address must be a string"
         ELSE IF ~IsString(event.from) THEN "from address must be a string"
         ELSE IF ~IsString(event.amount) THEN "amount must be a string"
         ELSE IF ~IsString(event.hash) THEN "hash must be a string"
         ELSE IF ~IsString(event.timestamp) THEN "timestamp must be a string"
         ELSE IF ~IsBase58Address(event.tokenAddress) THEN "Invalid token address format"
         ELSE IF ~IsBase58Address(event.to) THEN "Invalid recipient address format"
         ELSE IF ~IsBase58Address(event.from) THEN "Invalid sender address format"
         ELSE IF ~AmountFormatOk(event.amount) THEN "Invalid amount format"
         ELSE IF isNaN(Date_getTime(event.timestamp)) THEN "Invalid timestamp format"
         ELSE "ok"

\* The record with sender and recipient taken from each other's field
LegacyTransfer_swapped(event) ==
    [amount |-> parseFloat(event.amount),
     tokenAddress |-> event.tokenAddress,
     from |-> event.to,
     to |-> event.from,
     timestamp |-> Date_getTime(event.timestamp),
     transactionHash |-> event.hash]

\* The TokenTransfer built at lines 161-168.
LegacyTransfer(event) ==
    [amount |-> parseFloat(event.amount),
     tokenAddress |-> event.tokenAddress,
     from |-> event.from,
     to |-> event.to,
     timestamp |-> Date_getTime(event.timestamp),
     transactionHash |-> event.hash]

\* The result of a handleWebhook call: the store it leaves, whether it threw
\* (and what), what it did, and one entry per transaction item it processed.
Result(store, error, outcome, log) ==
    [transfers |-> store, threw |-> error # "none", error |-> error,
     outcome |-> outcome, log |-> log]

\* TokenService.handleWebhook, lines 107-204
handleWebhook_legacy(payload, store) ==
    LET invalid == validatePayload_legacy(payload)
    IN
    IF invalid # "ok" THEN Result(store, invalid, "invalid", <<>>)
    ELSE IF ToLowerCase(payload.event.tokenAddress) # ToLowerCase(config_usdcTokenAddress_toBase58)
         THEN Result(store, "none", "ignored-token", <<>>)
    ELSE IF ToLowerCase(payload.event.to) # ToLowerCase(config_solanaAddress)
         THEN Result(store, "none", "ignored-recipient", <<>>)
    ELSE LET transfer == LegacyTransfer(payload.event)
         IN
         IF isNaN(transfer.amount) THEN Result(store, "Failed to parse amount", "failed", <<>>)
         ELSE IF isNaN(transfer.timestamp)
              THEN Result(store, "Failed to parse timestamp", "failed", <<>>)
         ELSE Result(MapSet(store, transfer.transactionHash, transfer), "none", "stored", <<>>)

---------------------------------------------------------------------------
(* TokenService, raw address-activity shape: src/unnamed/part_002 lines 52-302 *)
(*                                                                          *)
(* A transaction item is null or an object with the optional fields         *)
(*   signature                                                              *)
(*   message  = transaction.transaction[0].message[0], with the optional    *)
(*              fields account_keys and instructions                        *)
(*   meta     = transaction.meta[0], with the optional fields pre_balances  *)
(*              and post_balances                                           *)

LAMPORTS_PER_SOL == 1000000000
ADDRESS_ACTIVITY ==
    Str(<<"A", "D", "D", "R", "E", "S", "S", "_", "A", "C", "T", "I", "V", "I", "T", "Y">>)
SOL == Str(<<"S", "O", "L">>)

\* a - b and a / n on numbers; NaN when an operand is no number
Minus(a, b) ==
    IF IsNumber(a) /\ IsNumber(b) /\ a.den = 1 /\ b.den = 1 THEN Num(a.num - b.num) ELSE NaN
DividedBy(a, n) == IF IsNumber(a) /\ a.den = 1 THEN Frac(a.num, n) ELSE NaN
\* balanceChange >= 0 in place of balanceChange > 0
IsPositive_orZero(v) == IsNumber(v) /\ v.num >= 0
IsPositive(v) == IsNumber(v) /\ v.num > 0

\* payload.event?.transaction?.[0], undefined when a link is missing
FirstTransaction(payload) ==
    LET event == Get(payload, "event")
    IN  IF IsObject(event) /\ "transaction" \in DOMAIN event /\ event.transaction # <<>>
        THEN event.transaction[1]
        ELSE Undefined

\* validatePayload, lines 97-147: the message of the error it throws, or "ok"
validatePayload_activity(payload) ==
    IF ~IsObject(payload) THEN "Payload must be an object"
    ELSE IF IsFalsy(Get(payload, "type")) THEN "Missing webhook type"
    ELSE IF payload.type # ADDRESS_ACTIVITY THEN "Unsupported webhook type"
    ELSE IF IsFalsy(FirstTransaction(payload)) THEN "Missing transaction data"
    ELSE LET transaction == FirstTransaction(payload)
         IN   IF IsFalsy(Get(transaction, "message")) THEN "Invalid transaction structure"
              ELSE IF "account_keys" \notin DOMAIN transaction.message
                   THEN "Missing or invalid account_keys"
              ELSE IF "instructions" \notin DOMAIN transaction.message
                   THEN "Missing or invalid instructions"
              ELSE IF IsFalsy(Get(transaction, "meta")) THEN "Missing transaction metadata"
              ELSE "ok"

\* isMonitoredAddress, lines 149-151
isMonitoredAddress(address) == ToLowerCase(address) = ToLowerCase(config_solanaAddress)

\* accounts.findIndex(this.isMonitoredAddress), line 173: the 0-based index of
\* the first account key that passes the test, -1 when there is none
monitoredAddressIndex(transaction) ==
    LET accounts == transaction.message.account_keys
    IN  IF \E i \in DOMAIN accounts : isMonitoredAddress(accounts[i])
        THEN (CHOOSE i \in DOMAIN accounts :
                /\ isMonitoredAddress(accounts[i])
                /\ \A j \in 1..(i - 1) : ~isMonitoredAddress(accounts[j])) - 1
        ELSE -1

\* Whether the try block of processTransaction (lines 155-211) throws a
\* TypeError before it has decided about the balance change.
ThrowsBeforeBalance(transaction) ==
    \/ transaction = Null
    \/ "message" \notin DOMAIN transaction
    \/ "meta" \notin DOMAIN transaction
    \/ "account_keys" \notin DOMAIN transaction.message
    \/ /\ monitoredAddressIndex(transaction) # -1
       /\ \/ "pre_balances" \notin DOMAIN transaction.meta
          \/ "post_balances" \notin DOMAIN transaction.meta

\* line 186
balanceChange(transaction) ==
    LET i == Num(monitoredAddressIndex(transaction))
        preBalance == At(transaction.meta.pre_balances, i)
        postBalance == At(transaction.meta.post_balances, i)
    IN  DividedBy(Minus(postBalance, preBalance), LAMPORTS_PER_SOL)

\* Whether evaluating accounts[instructions[0].accounts[0]] (line 193) throws.
ThrowsAtSender(transaction) ==
    \/ "instructions" \notin DOMAIN transaction.message
    \/ transaction.message.instructions = <<>>
    \/ "accounts" \notin DOMAIN transaction.message.instructions[1]

\* The record with from: accounts[0], the first account key, as the sender
ActivityTransfer_firstKeySender(transaction, time) ==
    [amount |-> balanceChange(transaction),
     tokenAddress |-> SOL,
     from |-> At(transaction.message.account_keys, Num(0)),
     to |-> At(transaction.message.account_keys, Num(monitoredAddressIndex(transaction))),
     timestamp |-> Num(time),
     transactionHash |-> Get(transaction, "signature")]

\* The TokenTransfer built at lines 190-197.
ActivityTransfer(transaction, time) ==
    LET accounts == transaction.message.account_keys
        instructions == transaction.message.instructions
    IN  [amount |-> balanceChange(transaction),
         tokenAddress |-> SOL,
         from |-> At(accounts, At(instructions[1].accounts, Num(0))),
         to |-> At(accounts, Num(monitoredAddressIndex(transaction))),
         timestamp |-> Num(time),
         transactionHash |-> Get(transaction, "signature")]

\* processTransaction, lines 153-224: the store it leaves and how it ends:
\* "stored", "skipped" (returned without a record), "error" (its catch block
\* logged and rethrew) or "crash" (its catch block threw while logging
\* transaction.signature of a null item).  The loop's log keeps one such
\* pair per item.
processTransaction(transaction, store, time) ==
    IF transaction = Null THEN [transfers |-> store, outcome |-> "crash"]
    ELSE IF ThrowsBeforeBalance(transaction) THEN [transfers |-> store, outcome |-> "error"]
    ELSE IF monitoredAddressIndex(transaction) = -1
         THEN [transfers |-> store, outcome |-> "skipped"]
    ELSE IF ~IsPositive(balanceChange(transaction))
         THEN [transfers |-> store, outcome |-> "skipped"]
    ELSE IF ThrowsAtSender(transaction) THEN [transfers |-> store, outcome |-> "error"]
    ELSE LET transfer == ActivityTransfer(transaction, time)
         IN  [transfers |-> MapSet(store, transfer.transactionHash, transfer),
              outcome |-> "stored"]

\* The catch block of the loop (lines 243-254) logs transaction.signature and
\* goes on to the next item; reading the signature of a null item throws, and
\* that error leaves the loop.
LoopCatchThrows(transaction) == transaction = Null

\* a loop that gives up its turn after one item, as it would with an await in
\* its body: the rest of the batch is left for a later turn
ProcessItems_oneItemPerTurn(items, i, store, time, log) ==
    IF i > Len(items) THEN Result(store, "none", "completed", log)
    ELSE Only({ Result(r.transfers, "none", "completed", Append(log, r))
              : r \in {processTransaction(items[i], store, time)}})

\* The for loop of handleWebhook, lines 240-255, from item i on.
RECURSIVE ProcessItems(_, _, _, _, _)
ProcessItems(items, i, store, time, log) ==
    IF i > Len(items) THEN Result(store, "none", "completed", log)
    ELSE Only({
            IF r.outcome \in {"error", "crash"} /\ LoopCatchThrows(items[i])
            THEN Result(r.transfers, "TypeError", "aborted", Append(log, r))
            ELSE ProcessItems(items, i + 1, r.transfers, time, Append(log, r))
         : r \in {processTransaction(items[i], store, time)}})

\* handleWebhook that runs the item loop before it looks at the verdict of
\* validatePayload
handleWebhook_activity_processFirst(payload, store, time) ==
    LET invalid == validatePayload_activity(payload)
    IN  IF invalid = "ok" THEN ProcessItems(payload.event.transaction, 1, store, time, <<>>)
        ELSE IF "event" \in DOMAIN payload /\ "transaction" \in DOMAIN payload.event
        THEN Result(ProcessItems(payload.event.transaction, 1, store, time, <<>>).transfers,
                    invalid, "invalid", <<>>)
        ELSE Result(store, invalid, "invalid", <<>>)

\* TokenService.handleWebhook, lines 226-273
handleWebhook_activity(payload, store, time) ==
    LET invalid == validatePayload_activity(payload)
    IN  IF invalid # "ok" THEN Result(store, invalid, "invalid", <<>>)
        ELSE ProcessItems(payload.event.transaction, 1, store, time, <<>>)

---------------------------------------------------------------------------
(* The controller: src/src/controllers/webhookController.ts lines 97-230 *)

Response(status, error) == [status |-> status, error |-> error]

\* tokenService.handleWebhook of the service the process runs
tokenService_handleWebhook(svc, payload, store, time) ==
    IF svc = "legacy" THEN handleWebhook_legacy(payload, store)
    ELSE handleWebhook_activity(payload, store, time)

\* What one call of webhookController.handleWebhook does: the response it
\* sends, whether it invoked tokenService.handleWebhook, that call's result,
\* and the store afterwards.
Handled(res, store) ==
    [res |-> res, invoked |-> FALSE, result |-> Result(store, "none", "not invoked", <<>>)]

webhookController_handleWebhook(req, store, key, svc, time) ==
    LET signature == req.headers_signature
    IN
    IF IsFalsy(signature) \/ ~IsString(signature)
    THEN Handled(Response(401, "Missing signature"), store)
    ELSE IF req.rawBody = Undefined
    THEN Handled(Response(500, "Internal server error - Raw body missing"), store)
    ELSE IF IsFalsy(key)
    THEN Handled(Response(500, "Internal server error - Configuration issue"), store)
    ELSE IF ~verifyAlchemySignature(BufferToString(req.rawBody.bytes), signature, key)
    THEN Handled(Response(401, "Invalid signature"), store)
    ELSE Only({
            [res |-> IF r.threw
                     THEN Response(500, "Internal server error - Webhook processing failed")
                     ELSE Response(200, "none"),
             invoked |-> TRUE,
             result |-> r]
         : r \in {tokenService_handleWebhook(svc, req.body, store, time)}})

\* a lookup that treats a hash it does not hold as an error
getTransferByHash_throwsOnAbsent(txHash, store) ==
    IF ~IsString(txHash) \/ ~MapHas(store, txHash) THEN [threw |-> TRUE, value |-> Undefined]
    ELSE [threw |-> FALSE, value |-> store[txHash]]

\* TokenService.getTransferByHash (the same in both services): what it returns,
\* or that it threw.
getTransferByHash(txHash, store) ==
    IF ~IsString(txHash) THEN [threw |-> TRUE, value |-> Undefined]
    ELSE [threw |-> FALSE, value |-> IF MapHas(store, txHash) THEN store[txHash] ELSE Undefined]

\* webhookController.queryTransaction, lines 232-275: the status and the JSON
\* body of the response to GET /transaction/:txHash
webhookController_queryTransaction(txHash, store) ==
    Only({
        IF r.threw THEN [status |-> 500, body |-> [error |-> "Internal server error"]]
        ELSE IF IsFalsy(r.value)
             THEN [status |-> 404, body |-> [error |-> "Transaction not found"]]
        ELSE [status |-> 200, body |-> r.value]
      : r \in {getTransferByHash(txHash, store)}})

---------------------------------------------------------------------------
(* The requests the model sends *)

Secret == Str(<<"k">>)      \* the key the provider signs with
WrongKey == Str(<<"w">>)

Buffer(bytes) == [bytes |-> bytes]
AsciiBody == <<123, 65, 125>>
WireBodies == {<<123>> \o mid \o <<125>> : mid \in {<<65>>, <<255>>, <<239, 191, 189>>}}

\* The signature a sender holding `key` puts on the bytes it sends.
Sign(key, bytes) == HmacSha256Hex(key, bytes)

ReplaceAt(s, i, c) == [text |-> [s.text EXCEPT ![i] = c], pad |-> s.pad]
UpperChar(c) ==
    IF c \in Range(LowerLetters)
    THEN UpperLetters[CHOOSE i \in DOMAIN LowerLetters : LowerLetters[i] = c]
    ELSE c
ToUpperCase(s) == [text |-> [i \in DOMAIN s.text |-> UpperChar(s.text[i])], pad |-> s.pad]

\* Signatures that differ from the right one in one position, or in letter case
TamperedSignatures ==
    LET sig == Sign(Secret, AsciiBody)
    IN  ({ReplaceAt(sig, i, c) : i \in {1, 4, Len(sig.text)}, c \in {"0", "f"}}
            \cup {ToUpperCase(sig)}) \ {sig}

h1 == Str(<<"h", "1">>)
h2 == Str(<<"h", "2">>)

Mon == Addr(<<"M", "o", "n">>)
MonLower == Addr(<<"m", "o", "n">>)
MonUpper == Addr(<<"M", "O", "N">>)     \* "O" is no base-58 character
Bob == Addr(<<"B", "o", "b">>)
Snd == Addr(<<"S", "n", "d">>)
Usdc == Addr(<<"U", "s", "d", "c">>)

BaseEvent ==
    [tokenAddress |-> Usdc, to |-> Mon, from |-> Snd,
     amount |-> Str(<<"1", "2", ".", "5">>), hash |-> h1,
     timestamp |-> Str(<<"1", "9", "7", "0">>)]

TokenAddresses ==
    {Usdc, Addr(<<"u", "s", "d", "c">>), Addr(<<"U", "S", "D", "C">>), Addr(<<"D", "a", "i">>),
     Addr(<<"U", "0">>), Padded(<<"U", "s", "d", "c">>, 27)}
ToAddresses == {Mon, MonLower, MonUpper, Bob, Padded(<<"M", "o", "n">>, 42)}
Amounts ==
    {Str(<<"1", "2", ".", "5">>), Str(<<"1", "2", ".", "5", "0">>), Str(<<"5">>),
     EmptyString, Str(<<".">>), Str(<<"1", "x">>)}
Timestamps ==
    {Str(<<"1", "9", "7", "0">>), Str(<<"1", "9", "7", "0", "-", "0", "1">>),
     Str(<<"1", "9", "7", "0", "-", "0", "1", "-", "0", "2">>), Str(<<"x">>)}

Without(obj, f) == [g \in DOMAIN obj \ {f} |-> obj[g]]

LegacyEvents ==
    {[BaseEvent EXCEPT !.tokenAddress = t, !.to = a] : t \in TokenAddresses, a \in ToAddresses}
    \cup {[BaseEvent EXCEPT !.amount = m] : m \in Amounts}
    \cup {[BaseEvent EXCEPT !.timestamp = ts] : ts \in Timestamps}
    \cup {[BaseEvent EXCEPT !.hash = h, !.amount = m] :
            h \in {h2, EmptyString}, m \in {Str(<<"5">>), EmptyString}}
    \cup {[BaseEvent EXCEPT !.from = f, !.amount = m, !.timestamp = ts] :
            f \in {MonUpper}, m \in {Str(<<"5">>), Str(<<"1", "x">>)},
            ts \in {Str(<<"1", "9", "7", "0", "-", "0", "1">>), Str(<<"x">>)}}
    \cup {[BaseEvent EXCEPT !.amount = Num(5)], [BaseEvent EXCEPT !.hash = Num(1)]}
    \cup {[BaseEvent EXCEPT !.amount = Num(5), !.tokenAddress = Addr(<<"U", "0">>)],
          [BaseEvent EXCEPT !.timestamp = Num(1), !.amount = Str(<<"1", "x">>)]}
    \cup {Without(BaseEvent, "hash"), Without(Without(BaseEvent, "to"), "amount")}

EmptyObject == [x \in {} |-> Undefined]

LegacyPayloads ==
    {[event |-> e] : e \in LegacyEvents} \cup {[event |-> Null], EmptyObject}

Instruction(accounts) == [accounts |-> accounts]
Balances(pre, post) ==
    [pre_balances |-> [i \in DOMAIN pre |-> Num(pre[i])],
     post_balances |-> [i \in DOMAIN post |-> Num(post[i])]]

Item(signature, keys, instructions, meta) ==
    [signature |-> signature,
     message |-> [account_keys |-> keys, instructions |-> instructions],
     meta |-> meta]

BaseKeys == <<Snd, Mon>>
BaseInstructions == <<Instruction(<<Num(0)>>)>>
Received == Balances(<<5, 10>>, <<5, 15>>)
BaseItem == Item(h1, BaseKeys, BaseInstructions, Received)

AccountKeyLists == {BaseKeys, <<Snd, MonLower>>, <<Snd, Bob>>, <<MonUpper, Mon>>, <<>>}
BalanceLists ==
    {Received,
     Balances(<<5, 10>>, <<5, 10>>),
     Balances(<<5, 15>>, <<5, 10>>),
     Balances(<<10, 10>>, <<5, 15>>),
     Balances(<<0, 1000000000>>, <<0, 1500000000>>),
     Balances(<<5>>, <<9>>)}
InstructionLists ==
    {BaseInstructions, <<>>, <<Instruction(<<>>)>>, <<Instruction(<<Num(1), Num(0)>>)>>,
     <<Instruction(<<Num(7)>>)>>, <<EmptyObject>>}

\* Items that lack a part of the structure
MalformedItems ==
    {Null,
     Without(BaseItem, "message"),
     Without(BaseItem, "meta"),
     [BaseItem EXCEPT !.message = Without(BaseItem.message, "account_keys")],
     [BaseItem EXCEPT !.message = Without(BaseItem.message, "instructions")],
     [BaseItem EXCEPT !.meta = Without(Received, "pre_balances")],
     [BaseItem EXCEPT !.message.account_keys = <<Snd, Bob>>, !.meta = EmptyObject]}

Items ==
    {Item(h1, k, BaseInstructions, b) :
            k \in AccountKeyLists, b \in {Received, Balances(<<10, 10>>, <<5, 15>>)}}
    \cup {Item(h1, BaseKeys, BaseInstructions, b) : b \in BalanceLists}
    \cup {Item(h1, BaseKeys, ins, b) :
            ins \in InstructionLists, b \in {Received, Balances(<<5, 15>>, <<5, 10>>)}}
    \cup {Item(h2, BaseKeys, BaseInstructions, Received), Without(BaseItem, "signature")}
    \cup MalformedItems

\* A second receipt under the signature of BaseItem
OtherReceipt == Item(h1, <<Snd, MonLower>>, BaseInstructions, Balances(<<5, 10>>, <<5, 12>>))

\* The items the batches of several items are made of
BatchItems ==
    {BaseItem,
     Item(h2, <<Snd, MonLower>>, BaseInstructions, Balances(<<5, 10>>, <<5, 12>>)),
     Item(h1, BaseKeys, <<>>, Received),
     Null,
     Without(BaseItem, "message")}

SeqsUpTo(S, lo, hi) == UNION {[1..n -> S] : n \in lo..hi}

ActivityPayload(items) == [type |-> ADDRESS_ACTIVITY, event |-> [transaction |-> items]]

ActivityPayloads ==
    {ActivityPayload(<<i>>) : i \in Items}
    \cup {ActivityPayload(b) : b \in SeqsUpTo(BatchItems, 2, MaxItems)}
    \cup {ActivityPayload(<<BaseItem, OtherReceipt>>), ActivityPayload(<<OtherReceipt, BaseItem>>)}
    \cup {ActivityPayload(<<>>),
          Without(ActivityPayload(<<BaseItem>>), "type"),
          Without(ActivityPayload(<<BaseItem>>), "event"),
          [ActivityPayload(<<BaseItem>>) EXCEPT !.type = Str(<<"x">>)],
          [type |-> ADDRESS_ACTIVITY, event |-> EmptyObject]}

\* Each service is sent the payloads of its own shape and a few well-formed
\* ones of the other shape.
Payloads(svc) ==
    IF svc = "legacy"
    THEN LegacyPayloads
            \cup {ActivityPayload(<<BaseItem>>), ActivityPayload(<<BaseItem, BaseItem>>)}
    ELSE ActivityPayloads
            \cup {[event |-> BaseEvent], [event |-> [BaseEvent EXCEPT !.hash = h2]]}

Request(signature, rawBody, body) ==
    [headers_signature |-> signature, rawBody |-> rawBody, body |-> body]

\* A payload that the service would store a record for
ProbePayload(svc) == IF svc = "legacy" THEN [event |-> BaseEvent] ELSE ActivityPayload(<<BaseItem>>)
ProbeSignatures ==
    {Undefined, EmptyString, [array |-> <<Sign(Secret, AsciiBody)>>]}
    \cup {Sign(k, b) : k \in {Secret, WrongKey}, b \in WireBodies}

\* express.json leaves req.rawBody unset and req.body = {} when it does not
\* parse a body (src/src/index.ts lines 21-26).
RequestsTo(svc) ==
    {Request(s, Buffer(b), ProbePayload(svc)) : s \in ProbeSignatures, b \in WireBodies}
    \cup {Request(s, Undefined, EmptyObject) : s \in ProbeSignatures}
    \cup {Request(s, Buffer(AsciiBody), ProbePayload(svc)) : s \in TamperedSignatures}
    \cup {Request(Sign(Secret, AsciiBody), Buffer(AsciiBody), p) : p \in Payloads(svc)}
LegacyRequests == RequestsTo("legacy")
ActivityRequests == RequestsTo("activity")
Requests(svc) == IF svc = "legacy" THEN LegacyRequests ELSE ActivityRequests

\* The :txHash route parameter: a non-empty string
h3 == Str(<<"h", "3">>)
QueryHashes == {h1, h2, h3}

---------------------------------------------------------------------------
(* The state machine *)

NoRequest == [kind |-> "none"]

Init ==
    /\ transfers = EmptyMap
    /\ signingKey \in {Secret, Undefined}
    /\ service \in {"legacy", "activity"}
    /\ now = 0
    /\ handled = 0
    /\ last = NoRequest

\* POST /webhook: one call of webhookController.handleWebhook, which runs to
\* its response without yielding to another request.
HandleWebhook ==
    /\ handled < MaxRequests
    /\ last = NoRequest
    /\ \E req \in Requests(service) :
        \E h \in {webhookController_handleWebhook(req, transfers, signingKey, service, now)} :
            /\ transfers' = h.result.transfers
            /\ last' = [kind |-> "webhook", req |-> req, res |-> h.res, before |-> transfers,
                        invoked |-> h.invoked, threw |-> h.result.threw,
                        error |-> h.result.error, outcome |-> h.result.outcome,
                        log |-> h.result.log]
    /\ handled' = handled + 1
    /\ UNCHANGED <<signingKey, service, now>>

\* GET /transaction/:txHash: one call of webhookController.queryTransaction
QueryTransaction ==
    /\ last = NoRequest
    /\ \E txHash \in QueryHashes :
        last' = [kind |-> "query", txHash |-> txHash, store |-> transfers,
                 res |-> webhookController_queryTransaction(txHash, transfers)]
    /\ UNCHANGED <<transfers, signingKey, service, now, handled>>

\* Time passes between requests; it is counted from the first request.  Only
\* the activity service reads the clock.
Tick ==
    /\ now < MaxClock
    /\ handled > 0
    /\ service = "activity"
    /\ last = NoRequest
    /\ now' = now + 1
    /\ UNCHANGED <<transfers, signingKey, service, handled, last>>

\* The response has been sent: the exchange is over and no longer observed.
Finish ==
    /\ last # NoRequest
    /\ last' = NoRequest
    /\ UNCHANGED <<transfers, signingKey, service, now, handled>>

Next == HandleWebhook \/ QueryTransaction \/ Finish \/ Tick

Spec == Init /\ [][Next]_vars

---------------------------------------------------------------------------
(* Vocabulary of the properties *)

Webhook == last.kind = "webhook"
Status == last.res.status
\* tokenService.handleWebhook ran and its validatePayload accepted the payload
Validated == Webhook /\ last.invoked /\ last.outcome # "invalid"
Event == last.req.body.event
\* the transaction items of a validated raw-activity notification
LastItems == last.req.body.event.transaction
\* the store before and after item i was processed, and how processing ended
ItemBefore(i) == IF i = 1 THEN last.before ELSE last.log[i - 1].transfers
ItemAfter(i) == last.log[i].transfers
ItemOutcome(i) == last.log[i].outcome

\* Two strings that differ at most in the letter case of their characters
SameIgnoringCase(s, t) ==
    /\ IsString(s) /\ IsString(t)
    /\ s.pad = t.pad
    /\ Len(s.text) = Len(t.text)
    /\ \A i \in DOMAIN s.text :
        \/ s.text[i] = t.text[i]
        \/ \E k \in DOMAIN UpperLetters :
            {s.text[i], t.text[i]} = {UpperLetters[k], LowerLetters[k]}

\* The signature header is missing, is no single string, or differs from the
\* HMAC of the raw body (no bytes when there is none) under the signing key.
BadSignature(req) ==
    \/ req.headers_signature = Undefined
    \/ ~IsString(req.headers_signature)
    \/ ~IsString(signingKey)
    \/ req.headers_signature #
         HmacSha256Hex(signingKey, IF req.rawBody = Undefined THEN <<>> ELSE req.rawBody.bytes)

\* An item that carries account keys and both balance lists
HasStructure(item) ==
    /\ item # Null
    /\ "message" \in DOMAIN item /\ "meta" \in DOMAIN item
    /\ "account_keys" \in DOMAIN item.message
    /\ "pre_balances" \in DOMAIN item.meta /\ "post_balances" \in DOMAIN item.meta

\* The positions (from 1) of the monitored address among the account keys
MonitoredPositions(item) ==
    {i \in DOMAIN item.message.account_keys :
        SameIgnoringCase(item.message.account_keys[i], config_solanaAddress)}
FirstMonitored(item) ==
    CHOOSE i \in MonitoredPositions(item) : \A j \in MonitoredPositions(item) : i <= j
HasBalancesAt(item, i) ==
    i \in DOMAIN item.meta.pre_balances /\ i \in DOMAIN item.meta.post_balances
\* post_balances[i] - pre_balances[i], in lamports
DeltaAt(item, i) == item.meta.post_balances[i].num - item.meta.pre_balances[i].num

\* The monitored address received lamports in the item.
Receives(item) ==
    /\ HasStructure(item)
    /\ MonitoredPositions(item) # {}
    /\ HasBalancesAt(item, FirstMonitored(item))
    /\ DeltaAt(item, FirstMonitored(item)) > 0

---------------------------------------------------------------------------
(* C1 *)

\* C1: a request with a missing, non-string or wrong signature is answered
\* 401, tokenService.handleWebhook is not invoked for it and the store is
\* left as it was.  (Violated: with the raw body missing or the signing key
\* unset such a request is answered 500.)
C1_BadSignatureIsUnauthorized ==
    (Webhook /\ BadSignature(last.req))
        => (Status = 401 /\ ~last.invoked /\ transfers = last.before)

\* The raw body is well-formed UTF-8 (or there is none)
WellFormedBody(req) ==
    req.rawBody = Undefined \/ Utf8Encode(Utf8Decode(req.rawBody.bytes)) = req.rawBody.bytes

\* The part of C1 that the controller keeps for bodies that are well-formed
\* UTF-8: a bad signature reaches neither the service nor the store.
C1_BadSignatureNeverReachesStore ==
    (Webhook /\ BadSignature(last.req) /\ WellFormedBody(last.req))
        => (Status \in {401, 500} /\ ~last.invoked /\ transfers = last.before)

---------------------------------------------------------------------------
(* C2 *)

\* C2: in a validated raw-activity notification an error in one item does not
\* stop the loop: every item of the list is processed and handleWebhook does
\* not throw.  (Violated: a null item after the first makes the catch blocks
\* themselves throw.)
C2_ItemErrorDoesNotStopLoop ==
    (Validated /\ service = "activity")
        => (~last.threw /\ Len(last.log) = Len(LastItems))

\* Scenario F: first item with an empty instruction list, second item valid
ScenarioF ==
    (Validated /\ service = "activity" /\ last.before = EmptyMap
        /\ LastItems = <<Item(h1, BaseKeys, <<>>, Received),
                         Item(h2, <<Snd, MonLower>>, BaseInstructions,
                              Balances(<<5, 10>>, <<5, 12>>))>>)
        => (Status = 200 /\ DOMAIN transfers = {h2})

---------------------------------------------------------------------------
(* C3 *)

\* C3: every notification that authenticates and passes validation is
\* answered 200.  (Violated: a legacy amount that parses to NaN, and a null
\* item of a batch, are answered 500.)
C3_ValidatedIsAccepted == Validated => Status = 200

---------------------------------------------------------------------------
(* C4 *)

\* C4: an authenticated notification whose payload fails validation gets a
\* client-error answer that is neither the unauthorized nor the internal-error
\* answer.  (Violated: it is answered 500.)
C4_InvalidPayloadIsClientError ==
    (Webhook /\ last.invoked /\ last.outcome = "invalid")
        => (Status >= 400 /\ Status < 500 /\ Status # 401)

---------------------------------------------------------------------------
(* C5 *)

HasKeysAndMeta(item) ==
    /\ item # Null
    /\ "message" \in DOMAIN item /\ "meta" \in DOMAIN item
    /\ "account_keys" \in DOMAIN item.message

\* C5: processing an item of a validated raw-activity notification stores a
\* record only if the monitored address occurs among the account keys
\* (ignoring case) and the balance at its first position grew; when the
\* address is absent, or the balance there did not grow, the item leaves the
\* store as it was and raises no error.
C5_StoresOnlyWhatWasReceived ==
    (Validated /\ service = "activity")
        => \A i \in DOMAIN last.log :
            /\ (ItemOutcome(i) = "stored" \/ ItemAfter(i) # ItemBefore(i))
                    => Receives(LastItems[i])
            /\ (HasKeysAndMeta(LastItems[i]) /\ MonitoredPositions(LastItems[i]) = {})
                    => (ItemOutcome(i) = "skipped" /\ ItemAfter(i) = ItemBefore(i))
            /\ (HasStructure(LastItems[i]) /\ ~Receives(LastItems[i]))
                    => (ItemOutcome(i) = "skipped" /\ ItemAfter(i) = ItemBefore(i))

\* An item is skipped, with records in the store, although the monitored
\* address gained at its second position: it lost at its first.
C5_Witness ==
    /\ Validated /\ service = "activity" /\ last.before # EmptyMap
    /\ \E i \in DOMAIN last.log :
        /\ HasStructure(LastItems[i])
        /\ MonitoredPositions(LastItems[i]) = {1, 2}
        /\ DeltaAt(LastItems[i], 1) < 0 /\ DeltaAt(LastItems[i], 2) > 0
        /\ ItemOutcome(i) = "skipped"

---------------------------------------------------------------------------
(* C6 *)

\* The first instruction of the item exists and has an account list
HasSender(item) ==
    /\ "instructions" \in DOMAIN item.message
    /\ item.message.instructions # <<>>
    /\ "accounts" \in DOMAIN item.message.instructions[1]

\* accounts[instructions[0].accounts[0]]: the account key the first account
\* index of the first instruction refers to, undefined when it refers to none
SenderOf(item) ==
    LET refs == item.message.instructions[1].accounts
        keys == item.message.account_keys
    IN  IF refs # <<>> /\ refs[1].den = 1 /\ refs[1].num + 1 \in DOMAIN keys
        THEN keys[refs[1].num + 1]
        ELSE Undefined

SignatureOf(item) == IF "signature" \in DOMAIN item THEN item.signature ELSE Undefined

\* The record that processing item i left under the item's signature is the
\* receipt of the item, and no other key of the store changed.
RecordsReceipt(i) ==
    LET item == LastItems[i]
        p == FirstMonitored(item)
        key == SignatureOf(item)
    IN  /\ ItemOutcome(i) = "stored"
        /\ DOMAIN ItemAfter(i) = DOMAIN ItemBefore(i) \cup {key}
        /\ \A k \in DOMAIN ItemBefore(i) \ {key} : ItemAfter(i)[k] = ItemBefore(i)[k]
        /\ LET rec == ItemAfter(i)[key]
           IN  /\ IsNumber(rec.amount)
               /\ LAMPORTS_PER_SOL % rec.amount.den = 0
               /\ rec.amount.num * (LAMPORTS_PER_SOL \div rec.amount.den) = DeltaAt(item, p)
               /\ rec.tokenAddress = SOL
               /\ rec.to = item.message.account_keys[p]
               /\ SameIgnoringCase(rec.to, config_solanaAddress)
               /\ rec.from = SenderOf(item)
               /\ rec.transactionHash = key

---------------------------------------------------------------------------
(* C7 *)

Ignored == {"ignored-token", "ignored-recipient"}
FilterOutcome(outcome) == IF outcome \in Ignored THEN outcome ELSE "passed"

TokenMatches(event) == SameIgnoringCase(event.tokenAddress, config_usdcTokenAddress_toBase58)
RecipientMatches(event) == SameIgnoringCase(event.to, config_solanaAddress)

\* Two events that differ at most in the letter case of tokenAddress and to
DifferOnlyInCase(e1, e2) ==
    /\ DOMAIN e1 = DOMAIN e2
    /\ SameIgnoringCase(e1.tokenAddress, e2.tokenAddress)
    /\ SameIgnoringCase(e1.to, e2.to)
    /\ \A f \in DOMAIN e1 \ {"tokenAddress", "to"} : e1[f] = e2[f]

\* C7: a validated legacy event whose tokenAddress is not the configured asset
\* or whose `to` is not the monitored address (ignoring case) stores nothing,
\* leaves the store unchanged and is no error; and an event that differs from
\* it only in the letter case of tokenAddress or to is filtered the same way.
C7_MismatchIsIgnored ==
    (Validated /\ service = "legacy")
        => /\ (~TokenMatches(Event) \/ ~RecipientMatches(Event))
                => (last.outcome \in Ignored /\ transfers = last.before
                        /\ ~last.threw /\ Status = 200)
           /\ \A e2 \in LegacyEvents :
                (validatePayload_legacy([event |-> e2]) = "ok" /\ DifferOnlyInCase(Event, e2))
                    => FilterOutcome(handleWebhook_legacy([event |-> e2], last.before).outcome)
                            = FilterOutcome(last.outcome)

\* Scenario B with records in the store: the asset matches in another letter
\* case, the recipient is someone else.
C7_Witness ==
    /\ Validated /\ service = "legacy" /\ last.before # EmptyMap
    /\ Event.tokenAddress # config_usdcTokenAddress_toBase58 /\ TokenMatches(Event)
    /\ ~RecipientMatches(Event)
    /\ last.outcome = "ignored-recipient" /\ transfers = last.before

---------------------------------------------------------------------------
(* C8 *)

IsDigit(c) == c \in Range(Digits)
\* The amount string holds a digit: it parses to a number.
AmountParses(s) == \E i \in DOMAIN Chars(s) : IsDigit(Chars(s)[i])
\* The digits of the string as one integer, and how many follow the point
AllDigits(s) == DigitsValue(SelectSeq(Chars(s), IsDigit))
DecimalPlaces(s) ==
    LET cs == Chars(s)
    IN  IF \E i \in DOMAIN cs : cs[i] = "."
        THEN Len(cs) - (CHOOSE i \in DOMAIN cs : cs[i] = ".")
        ELSE 0
\* v is the number that the decimal string s writes
IsValueOf(v, s) == IsNumber(v) /\ v.num * Pow10(DecimalPlaces(s)) = AllDigits(s) * v.den

\* C8: a validated legacy event for the configured asset and the monitored
\* address whose amount parses is stored under event.hash with amount = the
\* value of event.amount, tokenAddress, from and to as received, timestamp =
\* the parsed event.timestamp and transactionHash = event.hash; the other keys
\* of the store are left alone, so an empty store then holds just that record.
C8_MatchingEventIsRecorded ==
    (Validated /\ service = "legacy" /\ TokenMatches(Event) /\ RecipientMatches(Event)
            /\ AmountParses(Event.amount))
        => /\ ~last.threw /\ Status = 200
           /\ DOMAIN transfers = DOMAIN last.before \cup {Event.hash}
           /\ \A k \in DOMAIN last.before \ {Event.hash} : transfers[k] = last.before[k]
           /\ IsValueOf(transfers[Event.hash].amount, Event.amount)
           /\ (Event.amount = Str(<<"1", "2", ".", "5">>)
                    => transfers[Event.hash].amount = [num |-> 25, den |-> 2])
           /\ transfers[Event.hash].tokenAddress = Event.tokenAddress
           /\ transfers[Event.hash].from = Event.from
           /\ transfers[Event.hash].to = Event.to
           /\ transfers[Event.hash].timestamp = Date_getTime(Event.timestamp)
           /\ transfers[Event.hash].transactionHash = Event.hash
           /\ DOMAIN transfers[Event.hash] =
                {"amount", "tokenAddress", "from", "to", "timestamp", "transactionHash"}

\* Scenario A: amount "12.5" sent to the monitored address written in another
\* letter case, into an empty store.
C8_Witness ==
    /\ Validated /\ service = "legacy" /\ last.before = EmptyMap
    /\ Event.amount = Str(<<"1", "2", ".", "5">>) /\ Event.hash = h1
    /\ Event.to # config_solanaAddress /\ Event.from # Event.to
    /\ DOMAIN transfers = {h1}
    /\ transfers[h1].amount = [num |-> 25, den |-> 2]

---------------------------------------------------------------------------
(* C9 *)

\* C9: the body that is hashed is the body received: a request is accepted
\* only if its signature is the HMAC of the bytes of its raw body under the
\* signing key.  (Violated: the bytes are decoded and encoded again before
\* they are hashed, so a body with a byte that is no UTF-8 is accepted under
\* the signature of the body that has U+FFFD in its place.)
C9_AcceptedBodyIsSignedBody ==
    (Webhook /\ last.invoked)
        => last.req.headers_signature = HmacSha256Hex(signingKey, last.req.rawBody.bytes)

\* The part of C9 about the function itself: the signature of the body is
\* accepted, a signature or body changed in one place is not.
C9_VerifyDecidesEquality ==
    (Webhook /\ IsString(signingKey) /\ IsString(last.req.headers_signature)
            /\ last.req.headers_signature # EmptyString
            /\ last.req.rawBody # Undefined /\ WellFormedBody(last.req))
        => (last.invoked <=> ~BadSignature(last.req))

---------------------------------------------------------------------------
(* C10 *)

\* C10: with the signing key unset, a request that carries a signature and a
\* body is treated as not authenticated: it is answered 401, not 500.
\* (Violated: the controller answers 500 "Configuration issue".)
C10_UnsetKeyIsUnauthorized ==
    (Webhook /\ ~IsString(signingKey) /\ IsString(last.req.headers_signature)
            /\ last.req.headers_signature # EmptyString /\ last.req.rawBody # Undefined)
        => (Status = 401 /\ ~last.invoked)

---------------------------------------------------------------------------
(* C11 *)

\* The records of the store other than the one under `key` are as before
OthersUnchanged(before, after, key) ==
    /\ DOMAIN after = DOMAIN before \cup {key}
    /\ \A k \in DOMAIN before \ {key} : after[k] = before[k]

\* C11: when a record is stored under a hash that already holds a different
\* record -- by a later notification or by a later item of the same batch --
\* getTransferByHash returns exactly the later record, and the records under
\* the other hashes are unchanged.
C11_LastWriteWins ==
    /\ (Validated /\ service = "legacy" /\ last.outcome = "stored"
            /\ Event.hash \in DOMAIN last.before
            /\ last.before[Event.hash] # LegacyTransfer(Event))
        => /\ getTransferByHash(Event.hash, transfers)
                = [threw |-> FALSE, value |-> LegacyTransfer(Event)]
           /\ OthersUnchanged(last.before, transfers, Event.hash)
    /\ (Validated /\ service = "activity")
        => \A i \in DOMAIN last.log :
            (/\ ItemOutcome(i) = "stored"
             /\ SignatureOf(LastItems[i]) \in DOMAIN ItemBefore(i)
             /\ ItemBefore(i)[SignatureOf(LastItems[i])] # ActivityTransfer(LastItems[i], now))
            => /\ IsString(SignatureOf(LastItems[i]))
                    => getTransferByHash(SignatureOf(LastItems[i]), ItemAfter(i))
                        = [threw |-> FALSE, value |-> ActivityTransfer(LastItems[i], now)]
               /\ ItemAfter(i)[SignatureOf(LastItems[i])] = ActivityTransfer(LastItems[i], now)
               /\ OthersUnchanged(ItemBefore(i), ItemAfter(i), SignatureOf(LastItems[i]))

\* Two items of one batch store different records under one signature while
\* the store holds a record under another hash; the second one is what
\* remains.
C11_Witness ==
    /\ Validated /\ service = "activity" /\ Len(last.log) = 2
    /\ h2 \in DOMAIN last.before
    /\ ItemOutcome(1) = "stored" /\ ItemOutcome(2) = "stored"
    /\ SignatureOf(LastItems[1]) = h1 /\ SignatureOf(LastItems[2]) = h1
    /\ ItemAfter(1)[h1] # ItemAfter(2)[h1]
    /\ transfers[h1].amount = [num |-> 1, den |-> 500000000]
    /\ transfers[h2] = last.before[h2]

---------------------------------------------------------------------------
(* C12 *)

\* C12: storing a record that the store already holds under its hash leaves
\* the store, every key and every record, as it was after it was stored once.
C12_UpsertIsIdempotent ==
    /\ (Validated /\ service = "legacy" /\ last.outcome = "stored"
            /\ Event.hash \in DOMAIN last.before
            /\ last.before[Event.hash] = LegacyTransfer(Event))
        => transfers = last.before
    /\ (Validated /\ service = "activity")
        => \A i \in DOMAIN last.log :
            (/\ ItemOutcome(i) = "stored"
             /\ SignatureOf(LastItems[i]) \in DOMAIN ItemBefore(i)
             /\ ItemBefore(i)[SignatureOf(LastItems[i])] = ActivityTransfer(LastItems[i], now))
            => ItemAfter(i) = ItemBefore(i)

\* The same legacy event arrives a second time.
C12_Witness ==
    /\ Validated /\ service = "legacy" /\ last.outcome = "stored" /\ handled = 2
    /\ Event.hash = h1 /\ DOMAIN last.before = {h1}
    /\ last.before[h1] = LegacyTransfer(Event)
    /\ transfers = last.before

---------------------------------------------------------------------------
(* C13 *)

\* Two records made from the same source data: they agree in every field that
\* is taken from the notification.
SameSource(r1, r2) ==
    \A f \in {"amount", "tokenAddress", "from", "to", "transactionHash"} : r1[f] = r2[f]

\* C13: when a notification is delivered again, the record it leaves under
\* each of its hashes equals, in every field and the timestamp too, the record
\* that its first delivery left there.  (Violated: the raw-activity record
\* takes its timestamp from the clock at each delivery.)
C13_DuplicatesConverge ==
    /\ (Validated /\ service = "legacy" /\ last.outcome = "stored"
            /\ Event.hash \in DOMAIN last.before
            /\ SameSource(last.before[Event.hash], transfers[Event.hash])
            /\ last.before[Event.hash].timestamp = Date_getTime(Event.timestamp))
        => transfers[Event.hash] = last.before[Event.hash]
    /\ (Validated /\ service = "activity")
        => \A i \in DOMAIN last.log :
            (/\ ItemOutcome(i) = "stored"
             /\ SignatureOf(LastItems[i]) \in DOMAIN ItemBefore(i)
             /\ SameSource(ItemBefore(i)[SignatureOf(LastItems[i])],
                           ItemAfter(i)[SignatureOf(LastItems[i])]))
            => ItemAfter(i)[SignatureOf(LastItems[i])]
                    = ItemBefore(i)[SignatureOf(LastItems[i])]

---------------------------------------------------------------------------
(* C14 *)

Query == last.kind = "query"

\* C14: looking up a hash that is not stored returns undefined without
\* throwing and the endpoint answers 404; looking up a stored hash returns the
\* record that is stored under it, and the endpoint answers 200 with it.
C14_LookupNeverFails ==
    Query =>
        /\ last.txHash \notin DOMAIN transfers
            => /\ getTransferByHash(last.txHash, transfers) = [threw |-> FALSE, value |-> Undefined]
               /\ last.res = [status |-> 404, body |-> [error |-> "Transaction not found"]]
        /\ last.txHash \in DOMAIN transfers
            => /\ getTransferByHash(last.txHash, transfers)
                    = [threw |-> FALSE, value |-> transfers[last.txHash]]
               /\ last.res = [status |-> 200, body |-> transfers[last.txHash]]

\* A hash that was never stored is looked up in a store that holds records.
C14_Witness ==
    /\ Query /\ transfers # EmptyMap
    /\ last.txHash \notin DOMAIN transfers
    /\ last.res.status = 404

---------------------------------------------------------------------------
(* C15 *)

\* C15: the running service takes both shapes: an authenticated payload that
\* is a valid raw-activity notification or a valid legacy event passes the
\* validation of the service it reaches.  (Violated: each TokenService
\* validates one shape only and rejects the other.)
C15_BothShapesAreTaken ==
    (Webhook /\ last.invoked
            /\ \/ validatePayload_activity(last.req.body) = "ok"
               \/ validatePayload_legacy(last.req.body) = "ok")
        => last.outcome # "invalid"

---------------------------------------------------------------------------
(* C16 *)

\* C16: every record of the store has a non-empty string transactionHash and
\* is stored under it.  (Violated: a legacy event with hash "" is stored under
\* "", a raw-activity item without signature under undefined.)
C16_KeysAreNonEmptyHashes ==
    \A k \in DOMAIN transfers :
        /\ IsString(k) /\ k # EmptyString
        /\ transfers[k].transactionHash = k

\* The part of C16 that holds: a record is stored under its transactionHash.
C16_KeyIsTransactionHash == \A k \in DOMAIN transfers : transfers[k].transactionHash = k

---------------------------------------------------------------------------
(* C17 *)

\* The item has no instruction, or its first instruction has no account
NoSender(item) ==
    /\ "instructions" \in DOMAIN item.message
    /\ \/ item.message.instructions = <<>>
       \/ /\ "accounts" \in DOMAIN item.message.instructions[1]
          /\ item.message.instructions[1].accounts = <<>>

\* C17: an item in which the monitored address gained lamports but that names
\* no sender is an error of that item: nothing is stored for it, and the
\* items after it are still processed.  (Violated: with a first instruction
\* whose account list is empty a record with an undefined sender is stored.)
C17_NoSenderIsItemError ==
    (Validated /\ service = "activity")
        => \A i \in DOMAIN last.log :
            (Receives(LastItems[i]) /\ NoSender(LastItems[i]))
                => /\ ItemOutcome(i) = "error"
                   /\ ItemAfter(i) = ItemBefore(i)
                   /\ Len(last.log) = Len(LastItems)

\* The part of C17 that holds: an item without any instruction is an error of
\* that item and stores nothing.
C17_NoInstructionIsItemError ==
    (Validated /\ service = "activity")
        => \A i \in DOMAIN last.log :
            (Receives(LastItems[i]) /\ "instructions" \in DOMAIN LastItems[i].message
                    /\ LastItems[i].message.instructions = <<>>)
                => (ItemOutcome(i) = "error" /\ ItemAfter(i) = ItemBefore(i))

---------------------------------------------------------------------------
(* C18 *)

\* C18: a validated legacy event for the configured asset and the monitored
\* address whose amount holds no digit ("" or ".") stores nothing and the
\* notification is still answered 200.  (Violated: it is answered 500.)
C18_UnparsedAmountIsAccepted ==
    (Validated /\ service = "legacy" /\ TokenMatches(Event) /\ RecipientMatches(Event)
            /\ ~AmountParses(Event.amount))
        => (transfers = last.before /\ Status = 200)

\* The part of C18 that holds: nothing is stored.
C18_UnparsedAmountStoresNothing ==
    (Validated /\ service = "legacy" /\ TokenMatches(Event) /\ RecipientMatches(Event)
            /\ ~AmountParses(Event.amount))
        => (transfers = last.before /\ last.outcome = "failed")

---------------------------------------------------------------------------
(* C19 *)

\* The body is a raw-activity notification with a list of items none of which
\* is null
IsActivityBatch(body) ==
    /\ "type" \in DOMAIN body /\ body.type = ADDRESS_ACTIVITY
    /\ "event" \in DOMAIN body /\ "transaction" \in DOMAIN body.event
    /\ \A i \in DOMAIN body.event.transaction : body.event.transaction[i] # Null

\* Item i of the notification is complete, the monitored address gained in it,
\* and its record was stored.
ReceiptStored(i) ==
    (Receives(LastItems[i]) /\ HasSender(LastItems[i]))
        => (i \in DOMAIN last.log /\ ItemOutcome(i) = "stored")

\* C19: whatever items of an authenticated raw-activity notification lack a
\* part of their structure, at whatever position, every complete item of the
\* notification in which the monitored address gained is stored.  (Violated:
\* if the first item is the incomplete one, validation rejects the whole
\* notification.)
C19_MalformedItemIsIsolated ==
    (Webhook /\ last.invoked /\ service = "activity" /\ IsActivityBatch(last.req.body))
        => \A i \in DOMAIN LastItems : ReceiptStored(i)

\* The part of C19 that holds: when the first item passes validation, the
\* incomplete items after it are isolated.
C19_LaterMalformedItemIsIsolated ==
    (Validated /\ service = "activity" /\ IsActivityBatch(last.req.body))
        => (~last.threw /\ \A i \in DOMAIN LastItems : ReceiptStored(i))

---------------------------------------------------------------------------
(* C20 *)

HasEvent(body) == "event" \in DOMAIN body /\ IsObject(body.event)
HasFields(body) == HasEvent(body) /\ \A f \in Range(requiredFields) : f \in DOMAIN body.event
\* A field of the event that is a string and fails the test of its format
BadAddress(body, f) ==
    HasFields(body) /\ (~IsString(body.event[f]) \/ ~IsBase58Address(body.event[f]))
BadAmount(body) ==
    HasFields(body) /\ (~IsString(body.event.amount) \/ ~AmountFormatOk(body.event.amount))
BadTimestamp(body) ==
    HasFields(body)
        /\ (~IsString(body.event.timestamp) \/ isNaN(Date_getTime(body.event.timestamp)))
NotAString(body, f) == HasFields(body) /\ ~IsString(body.event[f])

\* The checks in the order of the specification, each with its error
ChecksAsSpecified(body) ==
    << <<~HasEvent(body), "Missing or invalid event object">>,
       <<~HasFields(body), "Missing required fields">>,
       <<BadAddress(body, "tokenAddress"), "Invalid token address format">>,
       <<BadAddress(body, "to"), "Invalid recipient address format">>,
       <<BadAddress(body, "from"), "Invalid sender address format">>,
       <<BadAmount(body), "Invalid amount format">>,
       <<BadTimestamp(body), "Invalid timestamp format">> >>

\* The same with the type of each field checked before the formats
ChecksWithTypes(body) ==
    SubSeq(ChecksAsSpecified(body), 1, 2)
    \o << <<NotAString(body, "tokenAddress"), "tokenAddress must be a string">>,
          <<NotAString(body, "to"), "to address must be a string">>,
          <<NotAString(body, "from"), "from address must be a string">>,
          <<NotAString(body, "amount"), "amount must be a string">>,
          <<NotAString(body, "hash"), "hash must be a string">>,
          <<NotAString(body, "timestamp"), "timestamp must be a string">> >>
    \o SubSeq(ChecksAsSpecified(body), 3, 7)

\* The error of the first check of the list that is violated, "ok" if none is
FirstViolated(checks) ==
    IF \E i \in DOMAIN checks : checks[i][1]
    THEN checks[CHOOSE i \in DOMAIN checks :
                    checks[i][1] /\ \A j \in 1..(i - 1) : ~checks[j][1]][2]
    ELSE "ok"

Distinct(checks) == \A i, j \in DOMAIN checks : checks[i][2] = checks[j][2] => i = j

\* What validation reported for the last notification
Reported == IF last.outcome = "invalid" THEN last.error ELSE "ok"

\* C20 as stated: the legacy payload is rejected with the error of the first
\* violated check in the order event object, required fields, address
\* formats, amount format, timestamp.  (Violated by a field that is no
\* string: its type is checked, with an error of its own, before any format.)
C20_FirstViolatedCheckAsSpecified ==
    (Webhook /\ last.invoked /\ service = "legacy")
        => Reported = FirstViolated(ChecksAsSpecified(last.req.body))

\* C20, amended: the order is event object, required fields, the six fields
\* are strings, address formats, amount format, timestamp; the error is that
\* of the first violated check, and the errors are distinct.
C20_FirstViolatedCheck ==
    (Webhook /\ last.invoked /\ service = "legacy")
        => /\ Reported = FirstViolated(ChecksWithTypes(last.req.body))
           /\ Distinct(ChecksWithTypes(last.req.body))

\* An event with a bad sender address, a bad amount and a bad timestamp is
\* rejected for the sender address.
C20_Witness ==
    /\ Webhook /\ last.invoked /\ service = "legacy"
    /\ HasFields(last.req.body)
    /\ BadAddress(last.req.body, "from") /\ BadAmount(last.req.body)
    /\ BadTimestamp(last.req.body)
    /\ last.outcome = "invalid" /\ last.error = "Invalid sender address format"

---------------------------------------------------------------------------
(* C21 *)

\* validatePayload of the running service rejects the payload of the request
Rejected(req) ==
    IF service = "legacy" THEN validatePayload_legacy(req.body) # "ok"
    ELSE validatePayload_activity(req.body) # "ok"

\* C21: when validatePayload rejects the payload of an authenticated
\* notification -- a missing or unsupported webhook type included -- no item
\* of the notification is processed and the store is as it was before.
C21_RejectedPayloadChangesNothing ==
    (Webhook /\ last.invoked /\ Rejected(last.req))
        => (last.log = <<>> /\ transfers = last.before /\ last.threw)

\* A notification of an unsupported type that carries an item the service
\* would record is rejected while the store holds a record of another hash.
C21_Witness ==
    /\ Webhook /\ last.invoked /\ service = "activity"
    /\ last.error = "Unsupported webhook type"
    /\ last.req.body.event.transaction = <<BaseItem>>
    /\ DOMAIN last.before = {h2} /\ transfers = last.before

---------------------------------------------------------------------------
(* C22 *)

RecordFields == {"amount", "tokenAddress", "from", "to", "timestamp", "transactionHash"}

\* The records that the upserts of the last notification wrote
UpsertsOfLast ==
    IF ~Validated THEN {}
    ELSE IF service = "legacy"
    THEN (IF last.outcome = "stored" THEN {LegacyTransfer(Event)} ELSE {})
    ELSE {ActivityTransfer(LastItems[i], now) :
            i \in {j \in DOMAIN last.log : ItemOutcome(j) = "stored"}}

\* C22: requests are served one after the other, and what a query finds under
\* a hash is absence or one complete record of one upsert: after every
\* notification each record of the store is the record that was there before
\* or the record of one upsert of the notification, never a mixture of the
\* two and never part of a record; a query answers with exactly the record
\* of the store.
C22_RecordsAreWhole ==
    /\ Webhook
        => \A k \in DOMAIN transfers :
            /\ DOMAIN transfers[k] = RecordFields
            /\ \/ k \in DOMAIN last.before /\ transfers[k] = last.before[k]
               \/ \E r \in UpsertsOfLast : r.transactionHash = k /\ transfers[k] = r
    /\ (Query /\ last.res.status # 404)
        => /\ last.res.status = 200
           /\ last.txHash \in DOMAIN transfers
           /\ last.res.body = transfers[last.txHash]
           /\ DOMAIN last.res.body = RecordFields

\* A later notification replaces the record of a hash by a record that
\* differs from it in the timestamp and in another field.
C22_Witness ==
    /\ Validated /\ now > 0
    /\ \E k \in DOMAIN transfers \cap DOMAIN last.before :
        /\ transfers[k].timestamp # last.before[k].timestamp
        /\ transfers[k].amount # last.before[k].amount
        /\ transfers[k] \in UpsertsOfLast

---------------------------------------------------------------------------
(* C23 *)

\* The keys under which the store differs from the store before the request
Written == {k \in DOMAIN transfers : k \notin DOMAIN last.before \/ transfers[k] # last.before[k]}

\* The store is the store at the end of the processing of the last
\* notification: the loop went through every item of the batch (or left it by
\* the throw of its own catch block on a null item), every record that an
\* item yielded is in the store unless a later item of the batch replaced it,
\* and nothing else was written.
BatchDone ==
    /\ DOMAIN last.before \subseteq DOMAIN transfers
    /\ ~Validated => transfers = last.before
    /\ (Validated /\ service = "legacy") =>
        /\ Written \subseteq {r.transactionHash : r \in UpsertsOfLast}
        /\ \A r \in UpsertsOfLast :
            r.transactionHash \in DOMAIN transfers /\ transfers[r.transactionHash] = r
    /\ (Validated /\ service = "activity") =>
        LET n == Len(last.log)
        IN  /\ n >= 1 /\ n <= Len(LastItems)
            /\ transfers = ItemAfter(n)
            /\ n = Len(LastItems) \/ (last.threw /\ LastItems[n] = Null)
            /\ \A i \in 1..n : ItemOutcome(i) = "stored" =>
                /\ SignatureOf(LastItems[i]) \in DOMAIN transfers
                /\ \E j \in i..n :
                    /\ ItemOutcome(j) = "stored"
                    /\ SignatureOf(LastItems[j]) = SignatureOf(LastItems[i])
                    /\ transfers[SignatureOf(LastItems[i])] = ActivityTransfer(LastItems[j], now)
            /\ \A k \in Written : \E i \in 1..n :
                ItemOutcome(i) = "stored" /\ SignatureOf(LastItems[i]) = k

====
